---------------------------- MODULE Spec2Model ----------------------------
(***************************************************************************)
(* Model of src/backend/index.js: the retrieval-augmented chat backend.    *)
(*                                                                         *)
(* The module's top level (lines 204-213) builds the pipeline once: the    *)
(* history adapter and memory, the reference documents, one document       *)
(* rendered from the stored history, the vector store, the history-aware   *)
(* retriever and the chain.  Only then is the /chat route registered       *)
(* (line 216).  Each /chat request runs chain.invoke inside a try/catch.   *)
(*                                                                         *)
(* chain.invoke is the composition made by createRetrievalChain (195-198)  *)
(* of the history-aware retriever (174-178) and an LLMChain with a         *)
(* BufferMemory (187-193).  As composed there, one invocation performs:    *)
(*   retrieve   - the retriever branch: rewrite the query only when the    *)
(*                invoke input carries a non-empty chat_history, else use  *)
(*                input verbatim; then embed the query and search;         *)
(*   loadMemory - the chain's memory reads the stored messages;            *)
(*   generate   - the completion call;                                     *)
(*   saveUser   - memory.saveContext appends the human message;            *)
(*   saveAI     - memory.saveContext appends the ai message;               *)
(* each one an awaited call to an external service, so other requests      *)
(* may run between any two of them.                                        *)
(*                                                                         *)
(* String literals of the source that are not ASCII are written here with  *)
(* the labels the specification uses (user / agent / unknown, and English  *)
(* renderings of the placeholder and of the fallback message).             *)
(***************************************************************************)
EXTENDS Naturals, Sequences, FiniteSets, TLC

VARIABLES
    startup,        \* position in the module's top-level sequence (204-216)
    startupError,   \* the error that rejected a top-level await, or "none"
    store,          \* the Redis list of the session: the message sequence
    writer,         \* for each stored message, the request that appended it (0: before startup)
    referenceDocs,  \* line 207
    messages,       \* line 104: the history read for the snapshot
    chatHistoryDoc, \* line 208
    vectorStore,    \* line 210: the chunks held by the MemoryVectorStore
    chain,          \* line 213: TRUE once the chain is built
    pc,             \* per request: the stage it is about to run
    userInput,      \* line 221
    query,          \* the string handed to the vector-store retriever
    context,        \* the retrieved chunks
    answer,         \* response.answer.response
    failedAt,       \* the stage whose call threw, or "none"
    responses,      \* what the handler sent on res, in order
    log,            \* the stages the request has completed, in order
    hadPriorTurns   \* whether the store held messages when the request ran its retrieval

vars == <<startup, startupError, store, writer, referenceDocs, messages,
          chatHistoryDoc, vectorStore, chain, pc, userInput, query, context,
          answer, failedAt, responses, log, hadPriorTurns>>

startupVars == <<startup, startupError, referenceDocs, messages,
                 chatHistoryDoc, vectorStore, chain>>

requestVars == <<pc, userInput, query, context, answer, failedAt,
                 responses, log, hadPriorTurns>>

-----------------------------------------------------------------------------
(* Bounds *)

MaxReqs == 2
MaxInitLen == 2

Reqs == 1..MaxReqs

(* Program constants *)

ChunkSize == 100
TopK == 2

None == "none"
Null == "null"

(* req.body.input, line 221 *)

Inputs == {"a", "bb"}

(* the kinds of message the adapter can return (_getType, lines 107-112) *)
MessageTypes == {"human", "ai", "system"}

(* What earlier runs of this program left in the store: human and ai       *)
(* messages in turn, the last human one possibly without its reply.        *)
AlternatingTurns(n) ==
    [i \in 1..n |-> IF i % 2 = 1 THEN [type |-> "human", content |-> "hi"]
                    ELSE [type |-> "ai", content |-> "reply to hi"]]

PriorHistories == {AlternatingTurns(n) : n \in 0..MaxInitLen}

(* Any message sequence a store can hold, for createChatHistoryDocs. *)
AnyMessages == [type : MessageTypes, content : {"hi", "ok then"}]

AnyHistories == UNION {[1..n -> AnyMessages] : n \in 0..MaxInitLen}

(* The reply of line 248 *)
Fallback == "sorry, something went wrong, try again later"

(* context.json as read by the JSONLoader: one document per text *)
ReferenceCorpus ==
    << [pageContent |-> "greeting sample", source |-> "context.json"],
       [pageContent |-> "farewell sample", source |-> "context.json"] >>

-----------------------------------------------------------------------------
(* createChatHistoryDocs, lines 102-122 *)

(* line 104: what getMessages resolves to; the adapter always gives an array *)
GetMessages(list) == [isArray |-> TRUE, items |-> list]

Undefined == [isArray |-> FALSE, items |-> <<>>]

IsArray(msgs) == msgs.isArray

RoleLine(msg) ==
    IF msg.type = "human" THEN "user: " \o msg.content
    ELSE IF msg.type = "ai" THEN "agent: " \o msg.content
    ELSE "unknown: " \o msg.content

MapLines(msgs) == [i \in 1..Len(msgs) |-> RoleLine(msgs[i])]

RECURSIVE Join(_, _)
Join(lines, sep) ==
    IF Len(lines) = 0 THEN ""
    ELSE IF Len(lines) = 1 THEN lines[1]
    ELSE lines[1] \o sep \o Join(Tail(lines), sep)

Placeholder == "no chat history"

HistoryContent(msgs) ==
    IF IsArray(msgs) THEN Join(MapLines(msgs.items), "\n") ELSE Placeholder

CreateChatHistoryDocs(msgs) ==
    [pageContent |-> HistoryContent(msgs), source |-> "chat_history"]

-----------------------------------------------------------------------------
(* createVecorstore, lines 137-158 *)

(* RecursiveCharacterTextSplitter on one text: nothing for the empty text, *)
(* the text whole when it fits chunkSize.  Longer texts are outside the    *)
(* documents this model builds; TLC stops if one is ever produced.         *)
SplitText(text) ==
    CASE text = "" -> <<>>
      [] text # "" /\ Len(text) <= ChunkSize -> <<text>>

RECURSIVE SplitDocuments(_)
SplitDocuments(docs) ==
    IF docs = <<>> THEN <<>>
    ELSE LET d == Head(docs)
             chunks == SplitText(d.pageContent)
         IN [i \in 1..Len(chunks) |->
                [pageContent |-> chunks[i], source |-> d.source]]
            \o SplitDocuments(Tail(docs))

CreateVecorstoreNoHistory(refDocs, histDoc) ==
    [built |-> TRUE, docs |-> SplitDocuments(refDocs)]

CreateVecorstore(refDocs, histDoc) ==
    [built |-> TRUE, docs |-> SplitDocuments(refDocs \o <<histDoc>>)]

NoVectorStore == [built |-> FALSE, docs |-> <<>>]

NoDocument == [pageContent |-> "", source |-> "unset"]

-----------------------------------------------------------------------------
(* The module's top-level sequence, lines 204-216 *)

StartupOrder ==
    <<"createReferenceDocs", "createChatHistoryDocs", "createVecorstore",
      "createChain", "serving">>

RECURSIVE IndexIn(_, _)
IndexIn(seq, x) ==
    IF seq = <<>> THEN 0
    ELSE IF Head(seq) = x THEN 1
    ELSE LET k == IndexIn(Tail(seq), x) IN IF k = 0 THEN 0 ELSE k + 1

AfterStartupStepIgnoringFailure(step, ok) ==
    StartupOrder[IndexIn(StartupOrder, step) + 1]

(* A rejected top-level await ends the module's evaluation. *)
AfterStartupStep(step, ok) ==
    IF ok THEN StartupOrder[IndexIn(StartupOrder, step) + 1] ELSE "aborted"

(* lines 204-205 build the adapter and the memory without any I/O *)
InitWith(histories) ==
    /\ startup = "createReferenceDocs"
    /\ startupError = None
    /\ store \in histories
    /\ writer = [i \in 1..Len(store) |-> 0]
    /\ referenceDocs = <<>>
    /\ messages = Undefined
    /\ chatHistoryDoc = NoDocument
    /\ vectorStore = NoVectorStore
    /\ chain = FALSE
    /\ pc = [r \in Reqs |-> "idle"]
    /\ userInput = [r \in Reqs |-> Null]
    /\ query = [r \in Reqs |-> Null]
    /\ context = [r \in Reqs |-> <<>>]
    /\ answer = [r \in Reqs |-> Null]
    /\ failedAt = [r \in Reqs |-> None]
    /\ responses = [r \in Reqs |-> <<>>]
    /\ log = [r \in Reqs |-> <<>>]
    /\ hadPriorTurns = [r \in Reqs |-> FALSE]

Init == InitWith(PriorHistories)

DocsInit == InitWith(AnyHistories)

(* line 207 *)
CreateReferenceDocs ==
    /\ startup = "createReferenceDocs"
    /\ \E ok \in BOOLEAN :
         /\ referenceDocs' = IF ok THEN ReferenceCorpus ELSE referenceDocs
         /\ startupError' = IF ok THEN startupError ELSE "CorpusLoadError"
         /\ startup' = AfterStartupStep("createReferenceDocs", ok)
    /\ UNCHANGED <<store, writer, messages, chatHistoryDoc, vectorStore, chain>>
    /\ UNCHANGED requestVars

(* line 208 *)
CreateChatHistoryDocsStep ==
    /\ startup = "createChatHistoryDocs"
    /\ \E ok \in BOOLEAN :
         /\ messages' = IF ok THEN GetMessages(store) ELSE messages
         /\ chatHistoryDoc' =
              IF ok THEN CreateChatHistoryDocs(GetMessages(store))
              ELSE chatHistoryDoc
         /\ startupError' = IF ok THEN startupError ELSE "HistoryUnavailable"
         /\ startup' = AfterStartupStep("createChatHistoryDocs", ok)
    /\ UNCHANGED <<store, writer, referenceDocs, vectorStore, chain>>
    /\ UNCHANGED requestVars

(* line 210 *)
CreateVecorstoreStep ==
    /\ startup = "createVecorstore"
    /\ \E ok \in BOOLEAN :
         /\ vectorStore' =
              IF ok THEN CreateVecorstore(referenceDocs, chatHistoryDoc)
              ELSE vectorStore
         /\ startupError' = IF ok THEN startupError ELSE "EmbeddingServiceError"
         /\ startup' = AfterStartupStep("createVecorstore", ok)
    /\ UNCHANGED <<store, writer, referenceDocs, messages, chatHistoryDoc, chain>>
    /\ UNCHANGED requestVars

(* lines 211-216: no external call; the route is registered afterwards *)
CreateChainStep ==
    /\ startup = "createChain"
    /\ chain' = TRUE
    /\ startup' = AfterStartupStep("createChain", TRUE)
    /\ UNCHANGED <<store, writer, startupError, referenceDocs, messages,
                   chatHistoryDoc, vectorStore>>
    /\ UNCHANGED requestVars

-----------------------------------------------------------------------------
(* chain.invoke as composed by createRetriever and createChain, 162-201 *)

(* lines 225-227: the handler passes input alone, so the chat_history the  *)
(* history-aware retriever branches on is absent (treated as empty).       *)
ChainInput(inp) == [input |-> inp, chat_history |-> <<>>]

(* the completion service answering the rephrase prompt of lines 166-172 *)
Rewrite(ci) == "search: " \o ci.input

(* the completion service answering the persona prompt of lines 43-69 *)
Complete(inp, ctx) == "reply to " \o inp

(* line 164: the k best chunks; the ranking is the embedding service's,    *)
(* fixed here to the order of the index.                                   *)
Retrieve(vs, q) ==
    SubSeq(vs.docs, 1, IF Len(vs.docs) < TopK THEN Len(vs.docs) ELSE TopK)

ChainStagesSaveFirst ==
    <<"start", "retrieve", "loadMemory", "saveUser", "generate", "saveAI",
      "respond">>

ChainStagesGenerateFirst ==
    <<"start", "loadMemory", "generate", "retrieve", "saveUser", "saveAI",
      "respond">>

ChainStages ==
    <<"start", "retrieve", "loadMemory", "generate", "saveUser", "saveAI",
      "respond">>

StageAfterSaveFirst(stage) ==
    ChainStagesSaveFirst[IndexIn(ChainStagesSaveFirst, stage) + 1]

StageAfterGenerateFirst(stage) ==
    ChainStagesGenerateFirst[IndexIn(ChainStagesGenerateFirst, stage) + 1]

StageAfter(stage) == ChainStages[IndexIn(ChainStages, stage) + 1]

(* what a provider's exception carries *)
RawError(stage) == "provider error in " \o stage

ErrorResponseRaw(err) == [status |-> 500, body |-> err]

(* the catch block, lines 246-249 *)
ErrorResponse(err) == [status |-> 500, body |-> Fallback]

(* lines 231-243 *)
ReplyResponse(content) == [status |-> 200, body |-> content]

(* An awaited call of the stage threw: control goes to the catch block. *)
Throw(r, stage) ==
    /\ failedAt' = [failedAt EXCEPT ![r] = stage]
    /\ responses' = [responses EXCEPT ![r] = Append(@, ErrorResponse(RawError(stage)))]
    /\ pc' = [pc EXCEPT ![r] = "done"]

Completed(r, stage) ==
    /\ log' = [log EXCEPT ![r] = Append(@, stage)]
    /\ pc' = [pc EXCEPT ![r] = StageAfter(stage)]
    /\ UNCHANGED <<failedAt, responses>>

(* lines 216-227: a request arrives on the registered route *)
Receive(r) ==
    /\ startup = "serving"
    /\ pc[r] = "idle"
    /\ IF r = 1 THEN TRUE ELSE pc[r - 1] # "idle"   \* requests are numbered by arrival
    /\ \E inp \in Inputs : userInput' = [userInput EXCEPT ![r] = inp]
    /\ pc' = [pc EXCEPT ![r] = StageAfter("start")]
    /\ UNCHANGED <<store, writer, query, context, answer, failedAt,
                   responses, log, hadPriorTurns>>
    /\ UNCHANGED startupVars

(* lines 174-178 and 164 *)
RetrieveStage(r) ==
    /\ pc[r] = "retrieve"
    /\ hadPriorTurns' = [hadPriorTurns EXCEPT ![r] = (Len(store) > 0)]
    /\ \E okRewrite, okEmbed \in BOOLEAN :
         LET ci == ChainInput(userInput[r])
             rewrites == Len(ci.chat_history) > 0
             q == IF rewrites THEN Rewrite(ci) ELSE ci.input
         IN  IF rewrites /\ ~okRewrite
             THEN /\ Throw(r, "rewrite")
                  /\ UNCHANGED <<query, context, log>>
             ELSE IF ~okEmbed
             THEN /\ Throw(r, "retrieve")
                  /\ query' = [query EXCEPT ![r] = q]
                  /\ log' = [log EXCEPT ![r] =
                               IF rewrites THEN Append(@, "rewrite") ELSE @]
                  /\ UNCHANGED context
             ELSE /\ query' = [query EXCEPT ![r] = q]
                  /\ context' = [context EXCEPT ![r] = Retrieve(vectorStore, q)]
                  /\ log' = [log EXCEPT ![r] =
                               (IF rewrites THEN Append(@, "rewrite") ELSE @)
                               \o <<"retrieve">>]
                  /\ pc' = [pc EXCEPT ![r] = StageAfter("retrieve")]
                  /\ UNCHANGED <<failedAt, responses>>
    /\ UNCHANGED <<store, writer, userInput, answer>>
    /\ UNCHANGED startupVars

(* lines 187-193: the chain's memory reads the stored messages *)
LoadMemoryStage(r) ==
    /\ pc[r] = "loadMemory"
    /\ \E ok \in BOOLEAN :
         IF ok THEN Completed(r, "loadMemory")
         ELSE Throw(r, "loadMemory") /\ UNCHANGED log
    /\ UNCHANGED <<store, writer, userInput, query, context, answer, hadPriorTurns>>
    /\ UNCHANGED startupVars

(* lines 187-193: the completion call *)
GenerateStage(r) ==
    /\ pc[r] = "generate"
    /\ \E ok \in BOOLEAN :
         IF ok
         THEN /\ answer' = [answer EXCEPT ![r] = Complete(userInput[r], context[r])]
              /\ Completed(r, "generate")
         ELSE Throw(r, "generate") /\ UNCHANGED <<log, answer>>
    /\ UNCHANGED <<store, writer, userInput, query, context, hadPriorTurns>>
    /\ UNCHANGED startupVars

(* lines 88-98: the memory appends the human message *)
SaveUserStage(r) ==
    /\ pc[r] = "saveUser"
    /\ \E ok \in BOOLEAN :
         IF ok
         THEN /\ store' = Append(store, [type |-> "human", content |-> userInput[r]])
              /\ writer' = Append(writer, r)
              /\ Completed(r, "saveUser")
         ELSE Throw(r, "saveUser") /\ UNCHANGED <<log, store, writer>>
    /\ UNCHANGED <<userInput, query, context, answer, hadPriorTurns>>
    /\ UNCHANGED startupVars

(* lines 88-98: the memory appends the ai message *)
SaveAIStage(r) ==
    /\ pc[r] = "saveAI"
    /\ \E ok \in BOOLEAN :
         IF ok
         THEN /\ store' = Append(store, [type |-> "ai", content |-> answer[r]])
              /\ writer' = Append(writer, r)
              /\ Completed(r, "saveAI")
         ELSE Throw(r, "saveAI") /\ UNCHANGED <<log, store, writer>>
    /\ UNCHANGED <<userInput, query, context, answer, hadPriorTurns>>
    /\ UNCHANGED startupVars

(* lines 231-243 *)
Respond(r) ==
    /\ pc[r] = "respond"
    /\ responses' = [responses EXCEPT ![r] = Append(@, ReplyResponse(answer[r]))]
    /\ log' = [log EXCEPT ![r] = Append(@, "respond")]
    /\ pc' = [pc EXCEPT ![r] = "done"]
    /\ UNCHANGED <<store, writer, userInput, query, context, answer,
                   failedAt, hadPriorTurns>>
    /\ UNCHANGED startupVars

StartupNext ==
    \/ CreateReferenceDocs
    \/ CreateChatHistoryDocsStep
    \/ CreateVecorstoreStep
    \/ CreateChainStep

Next ==
    \/ CreateReferenceDocs
    \/ CreateChatHistoryDocsStep
    \/ CreateVecorstoreStep
    \/ CreateChainStep
    \/ \E r \in Reqs : Receive(r)
    \/ \E r \in Reqs : RetrieveStage(r)
    \/ \E r \in Reqs : LoadMemoryStage(r)
    \/ \E r \in Reqs : GenerateStage(r)
    \/ \E r \in Reqs : SaveUserStage(r)
    \/ \E r \in Reqs : SaveAIStage(r)
    \/ \E r \in Reqs : Respond(r)

Spec == Init /\ [][Next]_vars

(* The pipeline build alone, over every message sequence the store can hold *)
DocsSpec == DocsInit /\ [][StartupNext]_vars

-----------------------------------------------------------------------------
(* Properties *)

Range(seq) == {seq[i] : i \in DOMAIN seq}

(* the positions of the store written by request r *)
AppendedBy(r) == {i \in DOMAIN writer : writer[i] = r}

(* the number of stored messages that predate this process *)
PriorCount == Cardinality({i \in DOMAIN writer : writer[i] = 0})

(* C1: a request appends nothing to the history before its generation has   *)
(* succeeded; a request whose generation call threw gets the fixed fallback *)
(* message and has appended neither its user turn nor a reply.              *)
C1_AppendOnlyAfterGeneration ==
    \A r \in Reqs :
        /\ AppendedBy(r) # {} => "generate" \in Range(log[r])
        /\ failedAt[r] = "generate" =>
              /\ responses[r] = <<[status |-> 500, body |-> Fallback]>>
              /\ AppendedBy(r) = {}

C1_Witness ==
    \E r \in Reqs :
        /\ pc[r] = "done"
        /\ failedAt[r] = "generate"
        /\ Len(responses[r]) = 1
        /\ \E o \in Reqs : AppendedBy(o) # {}

(* C2: while no append call has failed, the messages appended by requests   *)
(* form whole pairs: a human message is followed at once by the ai message  *)
(* of the same request (or is the last message, its reply still to come),   *)
(* and an ai message directly follows the human message of its request.     *)
C2_AppendsAreWholePairs ==
    (\A r \in Reqs : failedAt[r] \notin {"saveUser", "saveAI"}) =>
        \A i \in DOMAIN store :
            writer[i] # 0 =>
                /\ store[i].type = "human" =>
                      \/ i = Len(store)
                      \/ writer[i + 1] = writer[i] /\ store[i + 1].type = "ai"
                /\ store[i].type = "ai" =>
                      /\ i > 1
                      /\ writer[i - 1] = writer[i]
                      /\ store[i - 1].type = "human"

(* the index a startup builds from the reference documents and a snapshot   *)
IndexOfSnapshot(snap) ==
    ReferenceCorpus \o
    (IF snap = <<>> THEN <<>>
     ELSE <<[pageContent |-> Join(MapLines(snap), "\n"), source |-> "chat_history"]>>)

(* C3: once the service is up, the index holds exactly the reference        *)
(* documents and the rendering of the history read at startup, that         *)
(* snapshot being the messages that predate the process; the messages       *)
(* appended by requests are in the store, after the snapshot, and not in    *)
(* the index.                                                               *)
C3_IndexIsStartupSnapshot ==
    startup = "serving" =>
        /\ vectorStore.built
        /\ messages.isArray
        /\ messages.items = SubSeq(store, 1, PriorCount)
        /\ vectorStore.docs = IndexOfSnapshot(messages.items)
        /\ \A i \in DOMAIN store : writer[i] # 0 => i > Len(messages.items)

C3_Witness ==
    /\ startup = "serving"
    /\ Len(messages.items) > 0
    /\ \E r \in Reqs : pc[r] = "done" /\ Cardinality(AppendedBy(r)) = 2
    /\ Len(store) > Len(messages.items)

(* C4: when the store held prior turns as a request ran its retrieval and   *)
(* no rewrite call failed, the retriever was given the rewriter's output,   *)
(* not the user's input.                                                    *)
C4_RetrieverGetsRewrittenQuery ==
    \A r \in Reqs :
        ("retrieve" \in Range(log[r]) /\ hadPriorTurns[r]) =>
            /\ "rewrite" \in Range(log[r])
            /\ query[r] # userInput[r]

(* C6: a finished request whose generation succeeded has returned the       *)
(* generated reply, whether or not the history store failed.                *)
C6_HistoryFailureStillReplies ==
    \A r \in Reqs :
        (pc[r] = "done" /\ "generate" \in Range(log[r])) =>
            responses[r] = <<[status |-> 200, body |-> answer[r]]>>

(* C7: a request sends at most one response, exactly one once it has ended; *)
(* a request with a failed stage has ended, and its response is the fixed   *)
(* fallback; otherwise the response is the generated reply.  No response    *)
(* body is a provider's error.                                              *)
C7_OneUniformResponse ==
    \A r \in Reqs :
        /\ Len(responses[r]) <= 1
        /\ pc[r] = "done" <=> Len(responses[r]) = 1
        /\ failedAt[r] # None =>
              /\ pc[r] = "done"
              /\ responses[r] = <<[status |-> 500, body |-> Fallback]>>
        /\ (pc[r] = "done" /\ failedAt[r] = None) =>
              /\ answer[r] # Null
              /\ responses[r] = <<[status |-> 200, body |-> answer[r]]>>
        /\ \A i \in DOMAIN responses[r] :
              \A stage \in Range(ChainStages) \cup {"rewrite"} :
                  responses[r][i].body # "provider error in " \o stage

C7_Witness ==
    \E r, o \in Reqs :
        /\ pc[r] = "done" /\ failedAt[r] = "saveAI"
        /\ pc[o] = "done" /\ failedAt[o] = None

(* C8: a failed startup step aborts the startup, and no request is ever     *)
(* handled unless every startup step succeeded: the reference documents     *)
(* are loaded, the snapshot read, the index and the chain built.            *)
C8_NoRequestWithoutPipeline ==
    /\ startupError # None =>
          /\ startup = "aborted"
          /\ \A r \in Reqs : pc[r] = "idle"
    /\ (\E r \in Reqs : pc[r] # "idle") =>
          /\ startup = "serving"
          /\ referenceDocs # <<>>
          /\ messages.isArray
          /\ vectorStore.built
          /\ chain

C8_Witness ==
    /\ startup = "aborted"
    /\ startupError = "EmbeddingServiceError"
    /\ referenceDocs # <<>>
    /\ ~vectorStore.built

StageRank(stage) ==
    CASE stage = "rewrite" -> 1
      [] stage = "retrieve" -> 2
      [] stage = "loadMemory" -> 3
      [] stage = "generate" -> 4
      [] stage = "saveUser" -> 5
      [] stage = "saveAI" -> 6
      [] stage = "respond" -> 7

RoleLabel(type) ==
    CASE type = "human" -> "user"
      [] type = "ai" -> "agent"
      [] OTHER -> "unknown"

(* C10: the history document has one line per message, in message order,    *)
(* each the role label of its message followed by the message's content;    *)
(* and the document built from an empty message sequence has non-empty      *)
(* content.                                                                 *)
C10_HistoryDocument ==
    messages.isArray =>
        LET msgs == messages.items
            content == chatHistoryDoc.pageContent
        IN  /\ content =
                 Join([i \in 1..Len(msgs) |->
                         RoleLabel(msgs[i].type) \o ": " \o msgs[i].content], "\n")
            /\ msgs = <<>> => content # ""

=============================================================================
